---- MODULE Spec2Model ----
(***************************************************************************)
(* Session engine of the voice cooking assistant (backend/state.py and    *)
(* the /session endpoints of backend/app.py): step navigation, pause      *)
(* flag, timers evaluated on demand, the regex command interpreter of     *)
(* /session/query and the SQLite session store.                           *)
(*                                                                         *)
(* Time is discretised in ticks.  One tick is the resolution of the       *)
(* identities int(time.time() * 1000); TicksPerSec ticks make one second. *)
(* An utterance is the sequence of its space-separated words.             *)
(*                                                                         *)
(* Recipe extraction (backend/extractors.py) is one extract() run against  *)
(* a backend that answers each call in any way; model resolution, the     *)
(* chat fallback and the JSON candidate of backend/llm.py, the recipe     *)
(* validation and the duration parser are functions applied to one input. *)
(***************************************************************************)
EXTENDS Integers, Sequences, FiniteSets, TLC

VARIABLES now, sessions, db_sessions, db_timers, db_locked, resp, requests, inflight,
          ex, call

vars == <<now, sessions, db_sessions, db_timers, db_locked, resp, requests, inflight,
          ex, call>>

(* ------------------------------ bounds -------------------------------- *)
MaxClock == 2
TicksPerSec == 2
MaxSteps == 3
MaxRequests == 3
MaxStoreRequests == 5

(* ------------------------------ helpers ------------------------------- *)
Max(a, b) == IF a >= b THEN a ELSE b

Min(a, b) == IF a <= b THEN a ELSE b

Range(s) == {s[i] : i \in DOMAIN s}

\* int(x) of Python for the quotient n / d, d > 0: truncation toward zero.
IntTrunc(n, d) == IF n >= 0 THEN n \div d ELSE -((-n) \div d)

(* ------------------------------ recipes ------------------------------- *)
InstructionText == <<"chop", "boil", "simmer", "serve", "plate", "rest", "eat", "wash">>

MakeRecipe(n) ==
    [title |-> "soup",
     steps |-> [i \in 1..n |-> [step_number |-> i, instruction |-> InstructionText[i]]]]

\* /session/start accepts any Dict as the recipe, with or without steps.
Recipes == {MakeRecipe(0), MakeRecipe(MaxSteps)}

(* ------------------------------- Timer -------------------------------- *)
\* Faulty variant: the remaining time is not clamped at zero.
seconds_remaining_unclamped(t, clock) ==
    IF t.status # "running" THEN 0
    ELSE t.seconds_total - IntTrunc(clock - t.started_at, TicksPerSec)

seconds_remaining(t, clock) ==
    IF t.status # "running" THEN 0
    ELSE Max(0, t.seconds_total - IntTrunc(clock - t.started_at, TicksPerSec))

is_done(t, clock) == seconds_remaining(t, clock) = 0

(* --------------------------- CookingSession --------------------------- *)
\* Faulty variant: a session is created with a note on it.
NewSession_noted(sid, recipe, clock) ==
    [session_id |-> sid, recipe |-> recipe, current_step |-> 1, timers |-> <<>>,
     created_at |-> clock, notes |-> <<"started">>, is_paused |-> FALSE]

NewSession(sid, recipe, clock) ==
    [session_id |-> sid, recipe |-> recipe, current_step |-> 1, timers |-> <<>>,
     created_at |-> clock, notes |-> <<>>, is_paused |-> FALSE]

total_steps(s) == Len(s.recipe.steps)

\* The step record at current_step, or <<>> for None.
current_step_data(s) ==
    IF 1 <= s.current_step /\ s.current_step <= Len(s.recipe.steps)
    THEN <<s.recipe.steps[s.current_step]>>
    ELSE <<>>

\* Faulty variant: the last step is not treated as the boundary.
next_step_inclusive(s) ==
    IF s.current_step <= total_steps(s)
    THEN [session |-> [s EXCEPT !.current_step = s.current_step + 1], ret |-> "True"]
    ELSE [session |-> s, ret |-> "False"]

\* Faulty variant: a paused session does not advance.
next_step_unless_paused(s) ==
    IF s.current_step < total_steps(s) /\ ~s.is_paused
    THEN [session |-> [s EXCEPT !.current_step = s.current_step + 1], ret |-> "True"]
    ELSE [session |-> s, ret |-> "False"]

next_step(s) ==
    IF s.current_step < total_steps(s)
    THEN [session |-> [s EXCEPT !.current_step = s.current_step + 1], ret |-> "True"]
    ELSE [session |-> s, ret |-> "False"]

previous_step(s) ==
    IF s.current_step > 1
    THEN [session |-> [s EXCEPT !.current_step = s.current_step - 1], ret |-> "True"]
    ELSE [session |-> s, ret |-> "False"]

\* self.timers[timer_id] = timer on a dict that keeps insertion order: an
\* existing key keeps its position and gets the new value.
DictPut(timers, t) ==
    IF \E i \in DOMAIN timers : timers[i].id = t.id
    THEN [i \in DOMAIN timers |-> IF timers[i].id = t.id THEN t ELSE timers[i]]
    ELSE Append(timers, t)

session_add_timer(s, label, seconds, clock) ==
    LET timer == [id |-> clock, label |-> label, seconds_total |-> seconds,
                  started_at |-> clock, status |-> "running"]
    IN [session |-> [s EXCEPT !.timers = DictPut(s.timers, timer)], timer |-> timer]

\* Faulty variant: a running timer is listed whether or not its time is up.
get_active_timers_unswept(s, clock) ==
    SelectSeq(s.timers, LAMBDA t : t.status = "running")

get_active_timers(s, clock) ==
    SelectSeq(s.timers, LAMBDA t : t.status = "running" /\ ~is_done(t, clock))

check_timers(s, clock) ==
    LET flip(t) == t.status = "running" /\ is_done(t, clock)
    IN [session |-> [s EXCEPT !.timers =
                        [i \in DOMAIN s.timers |->
                            IF flip(s.timers[i])
                            THEN [s.timers[i] EXCEPT !.status = "completed"]
                            ELSE s.timers[i]]],
        completed |-> SelectSeq(s.timers, flip)]

(* --------------------------- SessionManager --------------------------- *)
\* Rows of the timers table that survive DELETE FROM timers WHERE session_id = ?
KeptRows(rows, sid) == SelectSeq(rows, LAMBDA r : r.session_id # sid)

TimerRow(sid, t) ==
    [timer_id |-> t.id, session_id |-> sid, label |-> t.label,
     seconds_total |-> t.seconds_total, started_at |-> t.started_at, status |-> t.status]

\* json.dumps and json.loads on a recipe.  The text is kept as its sequence
\* of tokens: punctuation, quoted strings, and numbers as decimal numerals.
Numerals == <<"0", "1", "2", "3", "4", "5", "6", "7", "8", "9">>

Punct(c) == [t |-> "punct", v |-> c]

Quoted(x) == [t |-> "str", v |-> x]

Number(n) == [t |-> "num", v |-> Numerals[n + 1]]

RECURSIVE Joined(_)
Joined(items) ==
    IF items = <<>> THEN <<>>
    ELSE IF Len(items) = 1 THEN items[1]
    ELSE items[1] \o <<Punct(",")>> \o Joined(Tail(items))

json_dumps(recipe) ==
    LET step(x) == <<Punct("{"), Quoted("step_number"), Punct(":"), Number(x.step_number),
                     Punct(","), Quoted("instruction"), Punct(":"), Quoted(x.instruction),
                     Punct("}")>>
    IN <<Punct("{"), Quoted("title"), Punct(":"), Quoted(recipe.title), Punct(","),
         Quoted("steps"), Punct(":"), Punct("[")>>
           \o Joined([i \in DOMAIN recipe.steps |-> step(recipe.steps[i])])
           \o <<Punct("]"), Punct("}")>>

\* Faulty variant: the last element of the steps array is not read.
json_loads_short(text) ==
    LET number(tok) == (CHOOSE i \in DOMAIN Numerals : Numerals[i] = tok.v) - 1
        count == (Len(text) - 9) \div 10
        at(k) == 9 + 10 * (k - 1)
    IN [title |-> text[4].v,
        steps |-> [k \in 1..(count - 1) |->
                      [step_number |-> number(text[at(k) + 3]),
                       instruction |-> text[at(k) + 7].v]]]

\* The object is read back key by key: the title, and one step for every
\* object of the steps array, in order.  The k-th object of the array opens
\* at token at(k): eight tokens lead to the array, an object takes nine and
\* a comma follows it, and two tokens close the array and the recipe.
json_loads(text) ==
    LET number(tok) == (CHOOSE i \in DOMAIN Numerals : Numerals[i] = tok.v) - 1
        count == (Len(text) - 9) \div 10
        at(k) == 9 + 10 * (k - 1)
    IN [title |-> text[4].v,
        steps |-> [k \in 1..count |->
                      [step_number |-> number(text[at(k) + 3]),
                       instruction |-> text[at(k) + 7].v]]]

\* Faulty variant: the pause flag is not written.
SessionRow_unpaused(s) ==
    [session_id |-> s.session_id, recipe_json |-> json_dumps(s.recipe),
     current_step |-> s.current_step,
     created_at |-> s.created_at, is_paused |-> 0]

SessionRow(s) ==
    [session_id |-> s.session_id, recipe_json |-> json_dumps(s.recipe),
     current_step |-> s.current_step,
     created_at |-> s.created_at, is_paused |-> IF s.is_paused THEN 1 ELSE 0]

\* Faulty variant: INSERT OR IGNORE, which keeps the row a session has.
SavedSessions_keep_existing(srows, s) ==
    [k \in DOMAIN srows \cup {s.session_id} |->
        IF k \in DOMAIN srows THEN srows[k] ELSE SessionRow(s)]

\* Faulty variant: an UPDATE of the session's row, which writes nothing when
\* the row does not exist.
SavedSessions_update_only(srows, s) ==
    [k \in DOMAIN srows |-> IF k = s.session_id THEN SessionRow(s) ELSE srows[k]]

\* INSERT OR REPLACE INTO sessions
SavedSessions(srows, s) ==
    [k \in DOMAIN srows \cup {s.session_id} |->
        IF k = s.session_id THEN SessionRow(s) ELSE srows[k]]

\* The INSERT INTO timers statements, one timer after the other.  timer_id
\* is the PRIMARY KEY of the table: inserting an id that a row holds raises
\* IntegrityError, and the timers after it are not reached.
RECURSIVE InsertTimers(_, _, _)
InsertTimers(rows, sid, ts) ==
    IF ts = <<>> THEN [rows |-> rows, ok |-> TRUE]
    ELSE IF \E j \in DOMAIN rows : rows[j].timer_id = Head(ts).id
         THEN [rows |-> rows, ok |-> FALSE]
         ELSE InsertTimers(Append(rows, TimerRow(sid, Head(ts))), sid, Tail(ts))

\* What the statements of _save_session have written on their connection
\* when conn.commit() is reached (ok) or when one of them raises.
Statements(srows, trows, s) ==
    LET ins == InsertTimers(KeptRows(trows, s.session_id), s.session_id, s.timers)
    IN [sessions |-> SavedSessions(srows, s), timers |-> ins.rows, ok |-> ins.ok]

\* Faulty variant: every statement is committed as it is executed.
_save_session_autocommit(srows, trows, s, locked) ==
    LET tx == Statements(srows, trows, s)
    IN IF locked
       THEN [sessions |-> srows, timers |-> trows, ok |-> FALSE, locked |-> TRUE]
       ELSE [sessions |-> tx.sessions, timers |-> tx.timers, ok |-> tx.ok, locked |-> ~tx.ok]

\* _save_session: one connection, one transaction, committed at the end.
\* When a statement raises, the connection is abandoned with its transaction
\* open: nothing of it reaches the tables, and it keeps the write lock until
\* it is freed.  While the lock is held the first statement of any other
\* save raises "database is locked".
_save_session(srows, trows, s, locked) ==
    LET tx == Statements(srows, trows, s)
    IN IF locked
       THEN [sessions |-> srows, timers |-> trows, ok |-> FALSE, locked |-> TRUE]
       ELSE IF tx.ok
            THEN [sessions |-> tx.sessions, timers |-> tx.timers, ok |-> TRUE, locked |-> FALSE]
            ELSE [sessions |-> srows, timers |-> trows, ok |-> FALSE, locked |-> TRUE]

_load_session(srows, trows, sid) ==
    LET row == srows[sid]
        mine == SelectSeq(trows, LAMBDA r : r.session_id = sid)
    IN [session_id |-> row.session_id, recipe |-> json_loads(row.recipe_json),
        current_step |-> row.current_step,
        timers |-> [i \in DOMAIN mine |->
                      [id |-> mine[i].timer_id, label |-> mine[i].label,
                       seconds_total |-> mine[i].seconds_total,
                       started_at |-> mine[i].started_at, status |-> mine[i].status]],
        created_at |-> row.created_at, notes |-> <<>>, is_paused |-> row.is_paused # 0]

\* get_session: the cached object, else the one loaded from the database,
\* which is then cached.
Known(sid) == sid \in DOMAIN sessions \/ sid \in DOMAIN db_sessions

get_session(sid) ==
    IF sid \in DOMAIN sessions THEN sessions[sid]
    ELSE _load_session(db_sessions, db_timers, sid)

Cached(sid, s) ==
    [k \in DOMAIN sessions \cup {sid} |-> IF k = sid THEN s ELSE sessions[k]]

(* ------------------------- parse_time_string -------------------------- *)
\* A duration string is the sequence of its "<number> <unit word>" terms; a
\* term is [whole, tenths, unit], tenths = 0 when there is no fraction, and
\* unit is the word that follows the number, as the sequence of its
\* characters (<<>> when no word follows).
Words ==
    [h |-> <<"h">>, hour |-> <<"h", "o", "u", "r">>, hours |-> <<"h", "o", "u", "r", "s">>,
     hrs |-> <<"h", "r", "s">>, m |-> <<"m">>,
     minutes |-> <<"m", "i", "n", "u", "t", "e", "s">>, Min |-> <<"M", "i", "n">>,
     s |-> <<"s">>, sec |-> <<"s", "e", "c">>,
     seconds |-> <<"s", "e", "c", "o", "n", "d", "s">>,
     apples |-> <<"a", "p", "p", "l", "e", "s">>]

\* time_str.lower() on the one character the patterns read after the number.
LowerChar(c) ==
    CASE c = "H" -> "h"
      [] c = "M" -> "m"
      [] c = "S" -> "s"
      [] OTHER -> c

\* The letter that makes a pattern match the term.  Each pattern is the
\* number, optional white space and one of h, m, s; the rest of the unit
\* word is optional in the pattern and nothing has to follow it, so a word
\* matches by its first character alone ("hrs", "h." and "hmm" are hours).
FirstLetter(w) ==
    IF w # <<>> /\ LowerChar(w[1]) \in {"h", "m", "s"} THEN LowerChar(w[1]) ELSE ""

Multipliers == <<[letter |-> "h", multiplier |-> 3600],
                 [letter |-> "m", multiplier |-> 60],
                 [letter |-> "s", multiplier |-> 1]>>

\* float(match.group(1)) * multiplier in IEEE doubles: for these numbers
\* (whole part, first decimal, multiplier; whole part up to 15) the product
\* is just below the exact one, as 4.1 * 60 = 245.99999999999997, and
\* int() gives a second less.
FloatShort == {<<4, 1, 3600>>, <<4, 1, 60>>, <<8, 2, 3600>>, <<8, 2, 60>>, <<8, 7, 3600>>}

\* Faulty variant: a duration without a unit is taken as one minute.
parse_time_string_default(d) ==
    LET hit(k) == {i \in DOMAIN d : FirstLetter(d[i].unit) = Multipliers[k].letter}
        ks == {k \in DOMAIN Multipliers : hit(k) # {}}
    IN IF ks = {} THEN <<60>>
       ELSE LET k == CHOOSE x \in ks : \A y \in ks : x <= y
                i == CHOOSE x \in hit(k) : \A y \in hit(k) : x <= y
                m == Multipliers[k].multiplier
                exact == d[i].whole * m + (d[i].tenths * m) \div 10
            IN <<IF <<d[i].whole, d[i].tenths, m>> \in FloatShort THEN exact - 1 ELSE exact>>

\* <<seconds>>, or <<>> for None.  The patterns are tried in the order
\* hours, minutes, seconds; re.search takes the leftmost term of a pattern.
parse_time_string(d) ==
    LET hit(k) == {i \in DOMAIN d : FirstLetter(d[i].unit) = Multipliers[k].letter}
        ks == {k \in DOMAIN Multipliers : hit(k) # {}}
    IN IF ks = {} THEN <<>>
       ELSE LET k == CHOOSE x \in ks : \A y \in ks : x <= y
                i == CHOOSE x \in hit(k) : \A y \in hit(k) : x <= y
                m == Multipliers[k].multiplier
                exact == d[i].whole * m + (d[i].tenths * m) \div 10
            IN <<IF <<d[i].whole, d[i].tenths, m>> \in FloatShort THEN exact - 1 ELSE exact>>

(* ------------------------ command interpreter ------------------------- *)
\* str.lower() on the words of the vocabulary.
LowerTok(w) ==
    CASE w = "Pause" -> "pause"
      [] w = "NEXT" -> "next"
      [] OTHER -> w

Lower(query) == [i \in DOMAIN query |-> LowerTok(query[i])]

DigitToks == <<"0", "1", "2", "3", "4", "5", "6", "7", "8", "9">>

IsNumber(w) == \E i \in DOMAIN DigitToks : DigitToks[i] = w

\* int(match.group(n)) on a one-digit word.
IntOf(w) == (CHOOSE i \in DOMAIN DigitToks : DigitToks[i] = w) - 1

MatchAt(q, i, p) == i >= 1 /\ i + Len(p) - 1 <= Len(q) /\ SubSeq(q, i, i + Len(p) - 1) = p

HasPhrase(q, p) == \E i \in DOMAIN q : MatchAt(q, i, p)

HasAny(q, ps) == \E p \in ps : HasPhrase(q, p)

\* r'\b(pause|stop|hold)\b'
pause_match(q) == HasAny(q, {<<"pause">>, <<"stop">>, <<"hold">>})

\* r'\b(resume|continue|start)\b'
resume_match(q) == HasAny(q, {<<"resume">>, <<"continue">>, <<"start">>})

\* r'\b(next|next step)\b'
next_match(q) == HasAny(q, {<<"next">>, <<"next", "step">>})

\* r'\b(previous|previous step|back|go back)\b'
previous_match(q) ==
    HasAny(q, {<<"previous">>, <<"previous", "step">>, <<"back">>, <<"go", "back">>})

\* r'\b(repeat|repeat step|again)\b'
repeat_match(q) == HasAny(q, {<<"repeat">>, <<"repeat", "step">>, <<"again">>})

\* r'\b(explain|detail|more info|tell me more)\b'
explain_match(q) ==
    HasAny(q, {<<"explain">>, <<"detail">>, <<"more", "info">>, <<"tell", "me", "more">>})

JumpHeads == {<<"go", "to">>, <<"jump", "to">>, <<"show", "me">>, <<"goto">>}

JumpAt(q, i) ==
    \E h \in JumpHeads :
        /\ MatchAt(q, i, h \o <<"step">>)
        /\ i + Len(h) + 1 <= Len(q)
        /\ IsNumber(q[i + Len(h) + 1])

\* r'(?:go to|jump to|show me|goto)\s+step\s+(\d+)': <<int(group(1))>> of the
\* leftmost match, or <<>> when there is none.
step_match(q) ==
    LET at == {i \in DOMAIN q : JumpAt(q, i)}
    IN IF at = {} THEN <<>>
       ELSE LET i == CHOOSE x \in at : \A y \in at : x <= y
                h == CHOOSE x \in JumpHeads : MatchAt(q, i, x \o <<"step">>)
            IN <<IntOf(q[i + Len(h) + 1])>>

ListHeads == {<<"list">>, <<"list", "the">>}

ListAt(q, i, h) ==
    /\ MatchAt(q, i, h)
    /\ i + Len(h) + 2 <= Len(q)
    /\ q[i + Len(h)] \in {"first", "last"}
    /\ IsNumber(q[i + Len(h) + 1])
    /\ q[i + Len(h) + 2] \in {"step", "steps"}

\* r'list\s+(?:the\s+)?(first|last)\s+(\d+)\s+steps?': <<[direction, count]>>
\* of the leftmost match, or <<>>.
list_match(q) ==
    LET at == {i \in DOMAIN q : \E h \in ListHeads : ListAt(q, i, h)}
    IN IF at = {} THEN <<>>
       ELSE LET i == CHOOSE x \in at : \A y \in at : x <= y
                h == CHOOSE x \in ListHeads : ListAt(q, i, x)
            IN <<[direction |-> q[i + Len(h)], count |-> IntOf(q[i + Len(h) + 1])]>>

\* steps[:count]
SliceFirst(steps, count) == SubSeq(steps, 1, Min(count, Len(steps)))

\* steps[-count:]: the start index -count is 0 when count = 0.
SliceLast(steps, count) ==
    LET start == IF count = 0 THEN 0 ELSE Max(0, Len(steps) - count)
    IN SubSeq(steps, start + 1, Len(steps))

selected_steps(steps, m) ==
    IF m.direction = "first" THEN SliceFirst(steps, m.count) ELSE SliceLast(steps, m.count)

\* "\n".join(f"Step {s['step_number']}: {s['instruction']}" ...), line by line.
StepLines(sel) == [i \in DOMAIN sel |-> <<sel[i].step_number, sel[i].instruction>>]

Labels(ts) == [i \in DOMAIN ts |-> ts[i].label]

Ids(ts) == [i \in DOMAIN ts |-> ts[i].id]

(* ------------------------------- inputs ------------------------------- *)
\* The ids requests name: every id a session was created with, and one that
\* no session has.
SessionIds == 0..MaxClock

UnknownId == MaxClock + 1

\* The action tokens of /session/step; "jump" is not one the handler knows.
Actions == {"next", "previous", "repeat", "jump"}


\* The add-timer requests: a label and a duration string, here "soon",
\* "0 minutes" and "1.5 sec".
TimerRequests ==
    {[label |-> "rice", duration |-> <<[whole |-> 0, tenths |-> 0, unit |-> <<>>]>>],
     [label |-> "rice", duration |-> <<[whole |-> 0, tenths |-> 0, unit |-> Words.minutes]>>],
     [label |-> "pasta", duration |-> <<[whole |-> 1, tenths |-> 5, unit |-> Words.sec]>>]}

\* The add-timer requests whose duration is a whole second or more.
StoreTimerRequests ==
    {r \in TimerRequests :
        parse_time_string(r.duration) # <<>> /\ parse_time_string(r.duration)[1] >= 1}

\* The utterances submitted to /session/query: one phrase, or two phrases
\* spoken one after the other.
Phrases ==
    {<<"Pause">>, <<"start">>, <<"NEXT">>, <<"go", "back">>, <<"again">>,
     <<"go", "to", "step", "0">>, <<"goto", "step", "2">>, <<"show", "me", "step", "9">>,
     <<"list", "the", "first", "2", "steps">>, <<"list", "last", "0", "steps">>,
     <<"list", "the", "last", "2", "steps">>, <<"list", "first", "7", "steps">>,
     <<"explain">>, <<"hello">>}

PhrasePairs ==
    {<<<<"Pause">>, <<"NEXT">>>>,
     <<<<"NEXT">>, <<"Pause">>>>,
     <<<<"start">>, <<"go", "back">>>>,
     <<<<"go", "back">>, <<"NEXT">>>>,
     <<<<"again">>, <<"go", "back">>>>,
     <<<<"goto", "step", "2">>, <<"again">>>>,
     <<<<"NEXT">>, <<"list", "the", "first", "2", "steps">>>>,
     <<<<"goto", "step", "2">>, <<"list", "the", "last", "2", "steps">>>>,
     <<<<"list", "last", "0", "steps">>, <<"explain">>>>,
     <<<<"explain">>, <<"go", "back">>>>,
     <<<<"hello">>, <<"show", "me", "step", "9">>>>}

Utterances == Phrases \cup {pq[1] \o pq[2] : pq \in PhrasePairs}

\* The utterances of the runs that also follow the clock and the timers.
CoreUtterances ==
    {<<"Pause">>, <<"start">>, <<"NEXT">>, <<"hello">>,
     <<"list", "the", "last", "2", "steps">>,
     <<"NEXT">> \o <<"list", "the", "first", "2", "steps">>}

\* What llm.chat does with the forwarded messages: it returns a completion
\* or raises.
ChatOutcomes == {"ok", "raise"}

\* The ticks of the clock that pass while llm.chat waits for the backend.
Waits == 0..MaxClock

(* ------------------------------ responses ----------------------------- *)
\* The response of the request handled last, until the clock moves on.
\* code is the HTTP status; completed and applied are the handler's own
\* record of the timers its sweep returned and of the rule branches it took.
NoResp ==
    [op |-> "none", sid |-> 0, code |-> 0, ret |-> "None", step |-> 0, total_steps |-> 0,
     body |-> "none", listing |-> <<>>, alerts |-> <<>>, active |-> <<>>, timer |-> <<>>,
     llm_calls |-> 0, applied |-> {}, completed |-> <<>>, forwarded |-> "none"]

Reply(op, sid, code) == [NoResp EXCEPT !.op = op, !.sid = sid, !.code = code]

\* The /session/step requests that are being handled when handlers are let
\* run side by side: where each one is in its get_session, mutate,
\* update_session cycle, the result of its navigation (the local variable
\* success, which picks the message), what it saved and when.
Workers == {1, 2}

Idle == [pc |-> "idle", sid |-> 0, action |-> "none", success |-> "None", got_at |-> 0,
         saved_at |-> 0, wrote |-> <<>>]

\* One extract() run: where it is, the pass of the for loop, the local
\* variable response (<<>> while nothing was assigned to it), the text
\* handed to the repair of the pass, the backend calls made so far in order
\* (the extraction calls of client.chat, the repair calls of _fix_json with
\* the text they were fed) and the value returned.
NoExtraction ==
    [pc |-> "idle", attempt |-> 0, response |-> <<>>, rejected |-> <<>>, trace |-> <<>>,
     result |-> <<>>]

\* No pure function has been applied yet.
NoCall == [fn |-> "none", arg |-> <<>>, out |-> <<>>]

Init ==
    /\ inflight = [w \in Workers |-> Idle]
    /\ now = 0
    /\ sessions = <<>>
    /\ db_sessions = <<>>
    /\ db_timers = <<>>
    /\ db_locked = FALSE
    /\ resp = NoResp
    /\ requests = 0
    /\ ex = NoExtraction
    /\ call = NoCall

\* Faulty variant: the registry is updated and the store is not written.
Commit_memory_only(session, ok, failed) ==
    /\ sessions' = Cached(session.session_id, session)
    /\ resp' = ok
    /\ UNCHANGED <<db_sessions, db_timers, db_locked>>

\* update_session followed by the handler's return: the registry holds the
\* mutated object whether or not the save succeeds.
Commit(session, ok, failed) ==
    \E saved \in {_save_session(db_sessions, db_timers, session, db_locked)} :
        /\ sessions' = Cached(session.session_id, session)
        /\ db_sessions' = saved.sessions
        /\ db_timers' = saved.timers
        /\ db_locked' = saved.locked
        /\ resp' = IF saved.ok THEN ok ELSE failed

\* One more request is handled; a run serves at most MaxRequests of them.
Served == requests < MaxRequests /\ requests' = requests + 1 /\ UNCHANGED <<inflight, ex, call>>

Tick ==
    /\ now < MaxClock
    /\ now' = now + 1
    /\ resp' = NoResp
    /\ UNCHANGED <<sessions, db_sessions, db_timers, db_locked, requests, inflight, ex, call>>

\* The process is restarted: the session registry is rebuilt empty, the
\* database file stays, and the connections of the old process are gone.
Restart ==
    /\ sessions # <<>>
    /\ sessions' = <<>>
    /\ db_locked' = FALSE
    /\ resp' = NoResp
    /\ UNCHANGED <<now, db_sessions, db_timers, requests, inflight, ex, call>>

\* The garbage collector runs: a connection that a failed save abandoned is
\* freed, which rolls its transaction back and releases the lock.
Collect ==
    /\ db_locked' = FALSE
    /\ UNCHANGED <<now, sessions, db_sessions, db_timers, resp, requests, inflight, ex, call>>

\* POST /session/start
StartSession(recipe) ==
    LET sid == now
        s == NewSession(sid, recipe, now)
    IN /\ Commit(s,
                 [Reply("start", sid, 200) EXCEPT !.total_steps = total_steps(s)],
                 Reply("start", sid, 500))
       /\ UNCHANGED now

\* GET /session/{session_id}, POST /session/step, /session/timer and
\* /session/query on an id that get_session does not find.
NotFound(op, sid) ==
    /\ ~Known(sid)
    /\ resp' = Reply(op, sid, 404)
    /\ UNCHANGED <<now, sessions, db_sessions, db_timers, db_locked>>

\* POST /session/step
NavigateStep(sid, action) ==
    LET s == get_session(sid)
        nav == CASE action = "next" -> next_step(s)
                 [] action = "previous" -> previous_step(s)
                 [] OTHER -> [session |-> s, ret |-> "None"]
    IN /\ Known(sid)
       /\ IF action \in {"next", "previous", "repeat"}
          THEN Commit(nav.session,
                      [Reply("step", sid, 200) EXCEPT
                            !.ret = nav.ret, !.body = action,
                            !.step = nav.session.current_step,
                            !.total_steps = total_steps(nav.session),
                            !.listing = StepLines(current_step_data(nav.session))],
                      Reply("step", sid, 500))
          ELSE /\ sessions' = Cached(sid, s)
               /\ resp' = Reply("step", sid, 400)
               /\ UNCHANGED <<db_sessions, db_timers, db_locked>>
       /\ UNCHANGED now

\* POST /session/timer
AddTimer(sid, label, duration) ==
    LET s == get_session(sid)
        seconds == parse_time_string(duration)
        added == session_add_timer(s, label, seconds[1], now)
    IN /\ Known(sid)
       /\ IF seconds = <<>>
          THEN /\ sessions' = Cached(sid, s)
               /\ resp' = Reply("timer", sid, 400)
               /\ UNCHANGED <<db_sessions, db_timers, db_locked>>
          ELSE Commit(added.session,
                      [Reply("timer", sid, 200) EXCEPT
                            !.timer = <<[timer_id |-> added.timer.id,
                                         label |-> added.timer.label,
                                         seconds_total |-> added.timer.seconds_total,
                                         seconds_remaining |->
                                             seconds_remaining(added.timer, now)]>>],
                      Reply("timer", sid, 500))
       /\ UNCHANGED now

\* GET /session/{session_id}: the sweep's result is dropped, the session is
\* saved and returned as to_dict().
GetSessionState(sid) ==
    LET s == get_session(sid)
        chk == check_timers(s, now)
    IN /\ Known(sid)
       /\ Commit(chk.session,
                 [Reply("state", sid, 200) EXCEPT
                       !.body = "state", !.completed = Ids(chk.completed),
                       !.step = chk.session.current_step,
                       !.total_steps = total_steps(chk.session),
                       !.active = Ids(get_active_timers(chk.session, now))],
                 [Reply("state", sid, 500) EXCEPT !.completed = Ids(chk.completed)])
       /\ UNCHANGED now

\* The regular expressions of query_session on one utterance.  They read
\* the utterance only, so their results are tabulated per utterance.
Matches(query) ==
    LET q == Lower(query)
    IN [pause |-> pause_match(q), resume |-> resume_match(q), next |-> next_match(q),
        previous |-> previous_match(q), repeat |-> repeat_match(q),
        step |-> step_match(q), list |-> list_match(q), explain |-> explain_match(q)]

MatchTable == [u \in Utterances |-> Matches(u)]

\* The parts of query_session.  Each gives the session as the handler
\* leaves it, whether update_session is reached, and the response that is
\* returned when the save succeeds.
QueryReply(s, clock) ==
    [Reply("query", s.session_id, 200) EXCEPT
          !.step = s.current_step, !.total_steps = total_steps(s),
          !.active = Ids(get_active_timers(s, clock))]

\* if re.search(r'\b(pause|stop|hold)\b', ...)
pause_branch(s, clock) ==
    LET s1 == [s EXCEPT !.is_paused = TRUE]
    IN [session |-> s1, save |-> TRUE,
        resp |-> [QueryReply(s1, clock) EXCEPT !.body = "paused", !.applied = {"pause"}]]

\* Faulty variant: resume flips the flag instead of clearing it.
resume_branch_toggle(s, clock) ==
    LET s1 == [s EXCEPT !.is_paused = ~s.is_paused]
    IN [session |-> s1, save |-> TRUE,
        resp |-> [QueryReply(s1, clock) EXCEPT
                        !.body = "resuming", !.applied = {"resume"},
                        !.listing = StepLines(current_step_data(s1))]]

\* if re.search(r'\b(resume|continue|start)\b', ...)
resume_branch(s, clock) ==
    LET s1 == [s EXCEPT !.is_paused = FALSE]
    IN [session |-> s1, save |-> TRUE,
        resp |-> [QueryReply(s1, clock) EXCEPT
                        !.body = "resuming", !.applied = {"resume"},
                        !.listing = StepLines(current_step_data(s1))]]

\* Faulty variant: the lower end of the range is off by one.
jump_from_zero(s, target_step) ==
    IF 0 <= target_step /\ target_step <= total_steps(s)
    THEN [s EXCEPT !.current_step = target_step]
    ELSE s

\* if 1 <= target_step <= session.total_steps: session.current_step = target_step
jump(s, target_step) ==
    IF 1 <= target_step /\ target_step <= total_steps(s)
    THEN [s EXCEPT !.current_step = target_step]
    ELSE s

\* The if / elif / else chain of the navigation rules.
navigate(s, m) ==
    IF m.next THEN [session |-> next_step(s).session, applied |-> {"advance"}]
    ELSE IF m.previous THEN [session |-> previous_step(s).session, applied |-> {"retreat"}]
    ELSE IF m.repeat THEN [session |-> s, applied |-> {"repeat"}]
    ELSE IF m.step # <<>> THEN [session |-> jump(s, m.step[1]), applied |-> {"jump"}]
    ELSE [session |-> s, applied |-> {}]

\* Faulty variant: the list rule sweeps the timers before it answers.
list_branch_sweeping(s, lm, applied, clock) ==
    [session |-> check_timers(s, clock).session, save |-> TRUE,
     resp |-> [QueryReply(s, clock) EXCEPT
                     !.body = "list", !.applied = applied \cup {"list"},
                     !.listing = StepLines(selected_steps(s.recipe.steps, lm))]]

\* if list_match: the selected steps are returned and the session is saved.
list_branch(s, lm, applied, clock) ==
    [session |-> s, save |-> TRUE,
     resp |-> [QueryReply(s, clock) EXCEPT
                     !.body = "list", !.applied = applied \cup {"list"},
                     !.listing = StepLines(selected_steps(s.recipe.steps, lm))]]

\* Faulty variant: the sweep is made after llm.chat has returned, so a call
\* that raises leaves the timers unswept.
forward_sweep_late(s, explain, applied, chat, clock, wait) ==
    LET rewritten == explain /\ current_step_data(s) # <<>>
        chk == check_timers(s, clock + wait)
        sent == [QueryReply(chk.session, clock + wait) EXCEPT
                       !.llm_calls = 1, !.completed = Ids(chk.completed),
                       !.forwarded = IF rewritten THEN "explain" ELSE "verbatim",
                       !.applied = applied \cup (IF rewritten THEN {"explain"} ELSE {})]
    IN IF chat = "ok"
       THEN [session |-> chk.session, save |-> TRUE,
             resp |-> [sent EXCEPT !.body = "llm", !.alerts = Labels(chk.completed)]]
       ELSE [session |-> s, save |-> FALSE,
             resp |-> [sent EXCEPT !.code = 500, !.step = 0, !.total_steps = 0,
                                   !.active = <<>>, !.completed = <<>>]]

\* The rest of the handler: the explain rewrite, the sweep, the call of
\* llm.chat, and the save and the response when chat returns.  The sweep
\* is made at the instant clock; chat blocks for wait ticks, so the active
\* timers of the response are those of the instant clock + wait.
forward(s, explain, applied, chat, clock, wait) ==
    LET rewritten == explain /\ current_step_data(s) # <<>>
        chk == check_timers(s, clock)
        sent == [QueryReply(chk.session, clock + wait) EXCEPT
                       !.llm_calls = 1, !.completed = Ids(chk.completed),
                       !.forwarded = IF rewritten THEN "explain" ELSE "verbatim",
                       !.applied = applied \cup (IF rewritten THEN {"explain"} ELSE {})]
    IN IF chat = "ok"
       THEN [session |-> chk.session, save |-> TRUE,
             resp |-> [sent EXCEPT !.body = "llm", !.alerts = Labels(chk.completed)]]
       ELSE [session |-> chk.session, save |-> FALSE,
             resp |-> [sent EXCEPT !.code = 500, !.step = 0, !.total_steps = 0,
                                   !.active = <<>>]]

query_session(s, m, chat, clock, wait) ==
    IF m.pause THEN pause_branch(s, clock)
    ELSE IF m.resume THEN resume_branch(s, clock)
    ELSE LET nav == navigate(s, m)
         IN IF m.list # <<>>
            THEN list_branch(nav.session, m.list[1], nav.applied, clock)
            ELSE forward(nav.session, m.explain, nav.applied, chat, clock, wait)

\* POST /session/query.  chat is what llm.chat does if the handler calls
\* it, wait the ticks of the clock it takes to do so.
QuerySession(sid, query, chat, wait) ==
    LET r == query_session(get_session(sid), MatchTable[query], chat, now, wait)
    IN /\ Known(sid)
       /\ now + wait <= MaxClock
       /\ (chat = "raise" \/ wait > 0) => r.resp.llm_calls > 0
       /\ IF r.save
          THEN Commit(r.session, r.resp,
                      [Reply("query", sid, 500) EXCEPT
                            !.llm_calls = r.resp.llm_calls,
                            !.completed = r.resp.completed,
                            !.forwarded = r.resp.forwarded,
                            !.applied = r.resp.applied])
          ELSE /\ sessions' = Cached(sid, r.session)
               /\ resp' = r.resp
               /\ UNCHANGED <<db_sessions, db_timers, db_locked>>
       /\ now' = now + wait

Next ==
    \/ Tick
    \/ Restart
    \/ Collect
    \/ \E recipe \in Recipes : Served /\ StartSession(recipe)
    \/ \E op \in {"state", "step", "timer", "query"} : Served /\ NotFound(op, UnknownId)
    \/ \E sid \in SessionIds, action \in Actions : Served /\ NavigateStep(sid, action)
    \/ \E sid \in SessionIds, r \in TimerRequests : Served /\ AddTimer(sid, r.label, r.duration)
    \/ \E sid \in SessionIds : Served /\ GetSessionState(sid)
    \/ \E sid \in SessionIds, query \in CoreUtterances, chat \in ChatOutcomes, wait \in Waits :
            Served /\ QuerySession(sid, query, chat, wait)

\* The session engine: every endpoint, the clock and restarts, in runs of at
\* most MaxRequests requests.
Spec == Init /\ [][Next]_vars

NextCmd ==
    \/ \E recipe \in Recipes : StartSession(recipe) /\ UNCHANGED <<requests, inflight, ex, call>>
    \/ \E op \in {"state", "step", "timer", "query"} :
            NotFound(op, UnknownId) /\ UNCHANGED <<requests, inflight, ex, call>>
    \/ \E sid \in SessionIds, action \in Actions :
            NavigateStep(sid, action) /\ UNCHANGED <<requests, inflight, ex, call>>
    \/ \E sid \in SessionIds, query \in Utterances, chat \in ChatOutcomes :
            QuerySession(sid, query, chat, 0) /\ UNCHANGED <<requests, inflight, ex, call>>

\* The command interpreter: any number of navigation requests and queries,
\* over every utterance, on the session started at instant 0.  The clock
\* stands still: the backend answers within the tick.
SpecCmd == Init /\ [][NextCmd]_vars

\* The requests that write timers and steps to the store, in runs of at most
\* MaxStoreRequests requests: long enough for two sessions to hold timers
\* created in the same tick and to be saved again afterwards.
ServedStore ==
    requests < MaxStoreRequests /\ requests' = requests + 1 /\ UNCHANGED <<inflight, ex, call>>

NextStore ==
    \/ Tick
    \/ Restart
    \/ Collect
    \/ ServedStore /\ StartSession(MakeRecipe(MaxSteps))
    \/ \E sid \in SessionIds, r \in StoreTimerRequests :
            ServedStore /\ AddTimer(sid, r.label, r.duration)
    \/ \E sid \in SessionIds : ServedStore /\ NavigateStep(sid, "next")

SpecStore == Init /\ [][NextStore]_vars

(* ----------------- /session/step handlers side by side ---------------- *)
\* navigate_step in its three parts, for handlers that run interleaved.  The
\* session a handler holds is the object of the registry, which every
\* handler of that session shares.  requests counts the saves.
\* session = manager.get_session(request.session_id)
RaceGet(w, sid, action) ==
    /\ inflight[w].pc = "idle"
    /\ Known(sid)
    /\ sessions' = Cached(sid, get_session(sid))
    /\ inflight' = [inflight EXCEPT ![w] =
                        [Idle EXCEPT !.pc = "got", !.sid = sid, !.action = action,
                                     !.got_at = requests]]
    /\ UNCHANGED <<now, db_sessions, db_timers, db_locked, resp, requests, ex, call>>

\* session.next_step() / session.previous_step() / nothing for "repeat"
RaceMutate(w) ==
    LET r == inflight[w]
        s == sessions[r.sid]
        nav == CASE r.action = "next" -> next_step(s)
                 [] r.action = "previous" -> previous_step(s)
                 [] OTHER -> [session |-> s, ret |-> "None"]
    IN /\ r.pc = "got"
       /\ sessions' = Cached(r.sid, nav.session)
       /\ inflight' = [inflight EXCEPT ![w].pc = "mutated", ![w].success = nav.ret]
       /\ UNCHANGED <<now, db_sessions, db_timers, db_locked, resp, requests, ex, call>>

\* manager.update_session(session) and the response
RaceSave(w) ==
    LET r == inflight[w]
        s == sessions[r.sid]
    IN /\ r.pc = "mutated"
       /\ Commit(s,
                 [Reply("step", r.sid, 200) EXCEPT
                       !.ret = r.success, !.body = r.action, !.step = s.current_step,
                       !.total_steps = total_steps(s),
                       !.listing = StepLines(current_step_data(s))],
                 Reply("step", r.sid, 500))
       /\ requests' = requests + 1
       /\ inflight' = [inflight EXCEPT ![w].pc = "done", ![w].saved_at = requests + 1,
                                       ![w].wrote = <<s.current_step>>]
       /\ UNCHANGED <<now, ex, call>>

NextRace ==
    \/ \E recipe \in Recipes :
            /\ sessions = <<>>
            /\ StartSession(recipe)
            /\ UNCHANGED <<requests, inflight, ex, call>>
    \/ \E w \in Workers, sid \in SessionIds, action \in Actions \ {"jump"} :
            RaceGet(w, sid, action)
    \/ \E w \in Workers : RaceMutate(w)
    \/ \E w \in Workers : RaceSave(w)

\* Two /session/step requests on one session, their parts interleaved in
\* every order.
SpecRace == Init /\ [][NextRace]_vars

(* ------------------------- recipe extraction -------------------------- *)
\* A parsed JSON document, as far as _validate_recipe looks at it.  kind is
\* its Python type.  has is what `key in recipe` finds among the required
\* keys: the keys of a dict, the elements of a list, the substrings of a
\* str.  ingredients and tools are the types of recipe["ingredients"] and
\* recipe["kitchen_tools_and_dishes"]; steps is recipe["steps"], a list of
\* items or another type.  A step has a type, keys and a step number.
RequiredKeys == {"ingredients", "kitchen_tools_and_dishes", "steps"}

StepKeys == {"step_number", "instruction"}

StepList(items) == [kind |-> "list", items |-> items]

Step(kind, has, n) == [kind |-> kind, has |-> has, step_number |-> n]

Doc(kind, has, ingredients, tools, steps) ==
    [kind |-> kind, has |-> has, ingredients |-> ingredients, tools |-> tools, steps |-> steps]

\* Faulty variant: a recipe without steps is accepted.
_validate_recipe_empty_steps(recipe) ==
    IF recipe.kind \notin {"dict", "list", "str"} THEN "TypeError"
    ELSE IF ~(RequiredKeys \subseteq recipe.has) THEN "False"
    ELSE IF recipe.kind # "dict" THEN "TypeError"
    ELSE IF recipe.ingredients # "dict" THEN "False"
    ELSE IF recipe.tools # "list" THEN "False"
    ELSE IF recipe.steps.kind # "list" THEN "False"
    ELSE IF \E i \in DOMAIN recipe.steps.items :
                \/ recipe.steps.items[i].kind # "dict"
                \/ ~(StepKeys \subseteq recipe.steps.items[i].has) THEN "False"
    ELSE "True"

\* Faulty variant: a step is not asked for its instruction.
_validate_recipe_no_instruction(recipe) ==
    IF recipe.kind \notin {"dict", "list", "str"} THEN "TypeError"
    ELSE IF ~(RequiredKeys \subseteq recipe.has) THEN "False"
    ELSE IF recipe.kind # "dict" THEN "TypeError"
    ELSE IF recipe.ingredients # "dict" THEN "False"
    ELSE IF recipe.tools # "list" THEN "False"
    ELSE IF recipe.steps.kind # "list" \/ Len(recipe.steps.items) = 0 THEN "False"
    ELSE IF \E i \in DOMAIN recipe.steps.items :
                \/ recipe.steps.items[i].kind # "dict"
                \/ "step_number" \notin recipe.steps.items[i].has THEN "False"
    ELSE "True"

\* "True", "False", or "TypeError" where `key not in recipe` or
\* recipe["ingredients"] raises on a document that is not a dict.
_validate_recipe(recipe) ==
    IF recipe.kind \notin {"dict", "list", "str"} THEN "TypeError"
    ELSE IF ~(RequiredKeys \subseteq recipe.has) THEN "False"
    ELSE IF recipe.kind # "dict" THEN "TypeError"
    ELSE IF recipe.ingredients # "dict" THEN "False"
    ELSE IF recipe.tools # "list" THEN "False"
    ELSE IF recipe.steps.kind # "list" \/ Len(recipe.steps.items) = 0 THEN "False"
    ELSE IF \E i \in DOMAIN recipe.steps.items :
                \/ recipe.steps.items[i].kind # "dict"
                \/ ~(StepKeys \subseteq recipe.steps.items[i].has) THEN "False"
    ELSE "True"

\* The documents the backend of the extraction runs answers with: a recipe
\* of two steps numbered 1 and 3, a recipe without steps, a recipe without
\* the steps key, a list of the three key names, and a number.
ValidDoc ==
    Doc("dict", RequiredKeys, "dict", "list",
        StepList(<<Step("dict", StepKeys, 1), Step("dict", StepKeys, 3)>>))

EmptyStepsDoc == Doc("dict", RequiredKeys, "dict", "list", StepList(<<>>))

NoStepsKeyDoc ==
    Doc("dict", RequiredKeys \ {"steps"}, "dict", "list", StepList(<<>>))

KeyListDoc == Doc("list", RequiredKeys, "dict", "list", StepList(<<>>))

NumberDoc == Doc("num", {}, "dict", "list", StepList(<<>>))

SampleDocs == {ValidDoc, EmptyStepsDoc, NoStepsKeyDoc, KeyListDoc, NumberDoc}

\* RecipeExtractor(model, max_retries=2)
max_retries == 2

\* What one backend call gives: it raises, or it returns a text.  json is
\* json.loads(extract_json_from_response(text)): <<document>>, or <<>>
\* where json.loads raises JSONDecodeError.  A call raises an exception
\* that is not a JSONDecodeError (time-out, no connection, HTTP error), or,
\* when the backend answers 200 with a body that is not JSON, the
\* JSONDecodeError of response.json().
Raised == [kind |-> "raise", json |-> <<>>]

RaisedDecodeError == [kind |-> "decode_error", json |-> <<>>]

Malformed == [kind |-> "text", json |-> <<>>]

Text(doc) == [kind |-> "text", json |-> <<doc>>]

BackendReplies == {Raised, RaisedDecodeError, Malformed} \cup {Text(doc) : doc \in SampleDocs}

\* Faulty variant: a response that fails to parse is never repaired.
can_repair_never(attempt) == FALSE

\* Faulty variant: the last pass repairs as well.
can_repair_always(attempt) == TRUE

\* if attempt < self.max_retries:
can_repair(attempt) == attempt < max_retries

\* The end of one pass of `for attempt in range(self.max_retries + 1)`: the
\* next pass, or `return None` after the last one.
next_attempt(e) ==
    IF e.attempt + 1 < max_retries + 1
    THEN [e EXCEPT !.pc = "chat", !.attempt = e.attempt + 1, !.rejected = <<>>]
    ELSE [e EXCEPT !.pc = "none", !.rejected = <<>>]

\* extractor.extract(transcript) is called.
ExtractStart ==
    /\ ex.pc = "idle"
    /\ ex' = [NoExtraction EXCEPT !.pc = "chat"]
    /\ UNCHANGED <<now, sessions, db_sessions, db_timers, db_locked, resp, requests,
                   inflight, call>>

\* One pass up to the repair: client.chat, extract_json_from_response,
\* json.loads, _validate_recipe.  A recipe that validates is returned; one
\* that does not, a TypeError of the validation or an exception of the
\* call that is not a JSONDecodeError ends the pass.  A JSONDecodeError, of
\* json.loads or of the call itself, goes to the repair when a retry is
\* left.  The repair is handed the variable response: when the call itself
\* raised, that is the text of an earlier pass, and in a run that has
\* assigned none the read raises UnboundLocalError, which leaves extract().
ExtractAttempt(reply) ==
    LET e == [ex EXCEPT !.trace = Append(@, [call |-> "extract", reply |-> reply,
                                             fed |-> <<>>])]
        got == [e EXCEPT !.response = <<reply>>]
    IN /\ ex.pc = "chat"
       /\ ex' = CASE reply.kind = "raise" -> next_attempt(e)
                  [] reply.kind = "decode_error" ->
                        IF ~can_repair(e.attempt) THEN next_attempt(e)
                        ELSE IF e.response = <<>> THEN [e EXCEPT !.pc = "raised"]
                        ELSE [e EXCEPT !.pc = "repair", !.rejected = e.response]
                  [] reply.kind = "text" /\ reply.json = <<>> ->
                        IF can_repair(e.attempt)
                        THEN [got EXCEPT !.pc = "repair", !.rejected = <<reply>>]
                        ELSE next_attempt(got)
                  [] reply.kind = "text" /\ reply.json # <<>> ->
                        IF _validate_recipe(reply.json[1]) = "True"
                        THEN [got EXCEPT !.pc = "returned", !.result = reply.json]
                        ELSE next_attempt(got)
       /\ UNCHANGED <<now, sessions, db_sessions, db_timers, db_locked, resp, requests,
                      inflight, call>>

\* The repair of the pass: response = self._fix_json(response), then
\* extract_json_from_response, json.loads and _validate_recipe inside the
\* bare except.  An exception of _fix_json itself, of either kind, is
\* raised inside the JSONDecodeError handler and leaves extract().
ExtractRepair(reply) ==
    LET e == [ex EXCEPT !.trace = Append(@, [call |-> "repair", reply |-> reply,
                                             fed |-> ex.rejected])]
        got == [e EXCEPT !.response = <<reply>>]
    IN /\ ex.pc = "repair"
       /\ ex' = CASE reply.kind \in {"raise", "decode_error"} -> [e EXCEPT !.pc = "raised"]
                  [] reply.kind = "text" /\ reply.json = <<>> -> next_attempt(got)
                  [] reply.kind = "text" /\ reply.json # <<>> ->
                        IF _validate_recipe(reply.json[1]) = "True"
                        THEN [got EXCEPT !.pc = "returned", !.result = reply.json]
                        ELSE next_attempt(got)
       /\ UNCHANGED <<now, sessions, db_sessions, db_timers, db_locked, resp, requests,
                      inflight, call>>

NextExtract ==
    \/ ExtractStart
    \/ \E reply \in BackendReplies : ExtractAttempt(reply)
    \/ \E reply \in BackendReplies : ExtractRepair(reply)

\* One extract() run against a backend that answers each call in any way.
SpecExtract == Init /\ [][NextExtract]_vars

\* The same run, where a call that was made is answered and the loop goes on.
SpecExtractLive == Init /\ [][NextExtract]_vars /\ WF_vars(NextExtract)

(* -------------------------- model resolution -------------------------- *)
\* A model name is the sequence of its parts between colons: "phi4:latest"
\* is <<"phi4", "latest">>.
Gemma1b == <<"gemma3", "1b">>

Llama3b == <<"llama3.2", "3b-instruct">>

Llama1b == <<"llama3.2", "1b">>

Phi4 == <<"phi4">>

Phi4Latest == <<"phi4", "latest">>

Mistral == <<"mistral", "7b">>

\* model.startswith(f"{wanted}:")
starts_with_tag(model, wanted) ==
    Len(model) > Len(wanted) /\ SubSeq(model, 1, Len(wanted)) = wanted

\* model == wanted or model.startswith(f"{wanted}:")
model_matches(model, wanted) == model = wanted \/ starts_with_tag(model, wanted)

\* for model in available_models: if <matches>: return model
first_match(available_models, wanted) ==
    LET hits == {i \in DOMAIN available_models : model_matches(available_models[i], wanted)}
    IN IF hits = {} THEN <<>>
       ELSE <<available_models[CHOOSE i \in hits : \A j \in hits : i <= j]>>

\* fallback_order of OllamaClient and of RecipeExtractor
fallback_order(impl) ==
    IF impl = "OllamaClient" THEN <<Phi4, Gemma1b, Llama3b, Llama1b>>
    ELSE <<Gemma1b, Llama3b, Llama1b>>

\* _get_available_model of the two classes, which differ in fallback_order.
_get_available_model(impl, preferred_model, available_models) ==
    LET order == fallback_order(impl)
        found == {k \in DOMAIN order : first_match(available_models, order[k]) # <<>>}
    IN IF available_models = <<>> THEN preferred_model
       ELSE IF first_match(available_models, preferred_model) # <<>>
       THEN first_match(available_models, preferred_model)[1]
       ELSE IF found # {}
       THEN first_match(available_models, order[CHOOSE k \in found : \A j \in found : k <= j])[1]
       ELSE available_models[1]

(* --------------------------- chat fallback ---------------------------- *)
\* `fallback in m` on names: the parts of fallback are a run of the parts of
\* m (which is the substring test for the names of AvailableSets).
name_in(fallback, m) ==
    \E i \in 0..(Len(m) - Len(fallback)) : SubSeq(m, i + 1, i + Len(fallback)) = fallback

\* OllamaClient.chat(messages, model).  outs are the outcomes of the POST
\* requests to /api/chat from this one on, in order: "ok" (an answer),
\* "timeout", "notfound" (HTTP 404, "model ... not found") or "refused" (no
\* connection).  posts are the models of the requests made; raised is the
\* word of the exception's message that chat() looks for.
client_chat(model, outs) ==
    CASE outs[1] = "ok" -> [ret |-> "text", raised |-> "", posts |-> <<model>>]
      [] outs[1] = "timeout" ->
            IF model # Gemma1b
            THEN IF outs[2] = "ok"
                 THEN [ret |-> "text", raised |-> "", posts |-> <<model, Gemma1b>>]
                 ELSE [ret |-> "raise", raised |-> "timed out", posts |-> <<model, Gemma1b>>]
            ELSE [ret |-> "raise", raised |-> "timed out", posts |-> <<model>>]
      [] outs[1] = "notfound" -> [ret |-> "raise", raised |-> "not found", posts |-> <<model>>]
      [] OTHER -> [ret |-> "raise", raised |-> "connect", posts |-> <<model>>]

fallback_models == <<Gemma1b, Llama3b>>

\* The loop over fallback_models of chat(): list_models, and client.chat with
\* the fallback that is available; the first answer is returned, and after
\* the last fallback the first exception e is raised again.
RECURSIVE try_fallbacks(_, _, _, _)
try_fallbacks(k, available, outs, e) ==
    IF k > Len(fallback_models)
    THEN [ret |-> "raise", raised |-> e.raised, posts |-> <<>>, lists |-> 0]
    ELSE IF \E m \in available : name_in(fallback_models[k], m)
    THEN LET c == client_chat(fallback_models[k], outs)
             rest == try_fallbacks(k + 1, available,
                                   SubSeq(outs, Len(c.posts) + 1, Len(outs)), e)
         IN IF c.ret = "text"
            THEN [ret |-> "text", raised |-> "", posts |-> c.posts, lists |-> 1]
            ELSE [rest EXCEPT !.posts = c.posts \o @, !.lists = @ + 1]
    ELSE LET rest == try_fallbacks(k + 1, available, outs, e)
         IN [rest EXCEPT !.lists = @ + 1]

\* chat(messages, model) of llm.py: client.chat, and the fallback loop when the
\* exception says "timed out" or "not found".
chat_with_fallback(model, available, outs) ==
    LET c == client_chat(model, outs)
        rest == try_fallbacks(1, available, SubSeq(outs, Len(c.posts) + 1, Len(outs)), c)
    IN IF c.ret = "text"
       THEN [ret |-> "text", raised |-> "", posts |-> c.posts, lists |-> 0]
       ELSE IF c.raised \in {"timed out", "not found"}
       THEN [rest EXCEPT !.posts = c.posts \o @]
       ELSE [ret |-> "raise", raised |-> c.raised, posts |-> c.posts, lists |-> 0]

(* --------------------- extract_json_from_response --------------------- *)
\* A response text is the sequence of its lines and a line the sequence of
\* its tokens: a code fence (three backticks), a brace, a bracket, or other
\* text "x".  An
\* empty line is <<>>.  The text a call returns is one sequence of tokens in
\* which "\n" separates the lines.
Fence == "fence"

\* text.strip() on lines: the empty lines at both ends go.
RECURSIVE strip(_)
strip(lines) ==
    IF lines = <<>> THEN <<>>
    ELSE IF Head(lines) = <<>> THEN strip(Tail(lines))
    ELSE IF lines[Len(lines)] = <<>> THEN strip(SubSeq(lines, 1, Len(lines) - 1))
    ELSE lines

\* line.strip().startswith of the code fence
is_fence(line) == line # <<>> /\ line[1] = Fence

\* "\n".join(lines)
RECURSIVE join(_)
join(lines) ==
    IF lines = <<>> THEN <<>>
    ELSE IF Len(lines) = 1 THEN lines[1]
    ELSE lines[1] \o <<"\n">> \o join(Tail(lines))

\* The text between the code fences: from the second line up to the last
\* line after the first that starts with a fence, or to the end.
between_fences(lines) ==
    LET closing == {i \in 2..Len(lines) : is_fence(lines[i])}
        end_idx == IF closing = {} THEN Len(lines) + 1
                   ELSE CHOOSE i \in closing : \A j \in closing : j <= i
    IN SubSeq(lines, 2, end_idx - 1)

unfenced(lines) ==
    LET text == strip(lines)
    IN IF text # <<>> /\ is_fence(text[1]) THEN join(between_fences(text)) ELSE join(text)

Closer(open) == IF open = "{" THEN "}" ELSE "]"

\* The positions where the pattern matches: an opening token with its
\* closing token somewhere after it.
match_starts(text) ==
    {i \in DOMAIN text :
        /\ text[i] \in {"{", "["}
        /\ \E j \in (i + 1)..Len(text) : text[j] = Closer(text[i])}

\* re.search of the pattern "{ anything }" or "[ anything ]" with re.DOTALL:
\* the leftmost match, with the anything as long as possible, up to the
\* last closer of its kind; the text itself where nothing matches.
regex_search(text) ==
    IF match_starts(text) = {} THEN text
    ELSE LET i == CHOOSE a \in match_starts(text) : \A b \in match_starts(text) : a <= b
             ends == {j \in (i + 1)..Len(text) : text[j] = Closer(text[i])}
         IN SubSeq(text, i, CHOOSE a \in ends : \A b \in ends : b <= a)

extract_json_from_response(lines) == regex_search(unfenced(lines))

(* ----------------------- pure functions applied ----------------------- *)
\* The durations parse_time_string is applied to: one number with one
\* decimal digit and a unit word, or a word without a number ("soon").
MaxWhole == 5

DurationUnits == {Words[k] : k \in DOMAIN Words} \cup {<<>>}

Durations ==
    {<<[whole |-> w, tenths |-> t, unit |-> u]>> :
        w \in (0..MaxWhole) \cup {30}, t \in 0..9, u \in DurationUnits}

\* The lists of models Ollama reports and the names asked for.
MaxModels == 3

ModelNames == {Gemma1b, Llama1b, Phi4, Phi4Latest, Mistral}

AvailableLists == UNION {[1..n -> ModelNames] : n \in 0..MaxModels}

PreferredModels == {Gemma1b, Phi4, Mistral, <<"zephyr">>}

\* The chat requests: the model asked for, the models installed, and the
\* outcome of every POST the backend may receive.
MaxPosts == 5

PostOutcomes == {"ok", "timeout", "notfound", "refused"}

ChatModels == {Gemma1b, Phi4}

AvailableSets == SUBSET {Gemma1b, Llama3b}

\* The parsed documents _validate_recipe is applied to.
MaxDocSteps == 2

StepItems ==
    {Step("dict", has, 1) : has \in SUBSET StepKeys}
        \cup {Step("dict", StepKeys, 3), Step("str", {}, 1)}

StepValues ==
    {StepList(items) : items \in UNION {[1..n -> StepItems] : n \in 0..MaxDocSteps}}
        \cup {[kind |-> "dict", items |-> <<>>]}

Documents ==
    {Doc("dict", has, ingredients, tools, steps) :
        has \in SUBSET RequiredKeys, ingredients \in {"dict", "list"},
        tools \in {"list", "dict"}, steps \in StepValues}
        \cup {Doc(kind, has, "dict", "list", StepList(<<>>)) :
                kind \in {"list", "str", "num"}, has \in {{}, RequiredKeys}}

\* The responses extract_json_from_response is applied to: one line of up
\* to MaxTokens tokens, and fenced blocks with and without a closing fence,
\* text after it, or empty lines around.
MaxTokens == 4

Symbols == {"{", "}", "[", "]", "x"}

Lines(n) == UNION {[1..k -> Symbols] : k \in 0..n}

Responses ==
    {<<line>> : line \in Lines(MaxTokens)}
        \cup {<<<<Fence, "x">>, line>> \o tail :
                line \in Lines(MaxTokens - 2),
                tail \in {<<>>, <<<<Fence>>>>, <<<<Fence>>, <<"x", "}">>>>,
                          <<<<Fence>>, <<>>>>}}
        \cup {<<<<>>, <<Fence>>, line, <<"}", Fence>>, <<Fence>>>> : line \in Lines(1)}
        \cup {<<<<Fence, "{", "}", Fence>>>>}

\* No function has been applied yet.
Fresh == call.fn = "none"

ParseTime(d) ==
    /\ Fresh
    /\ call' = [fn |-> "parse_time_string", arg |-> d, out |-> parse_time_string(d)]
    /\ UNCHANGED <<now, sessions, db_sessions, db_timers, db_locked, resp, requests,
                   inflight, ex>>

ResolveModel(impl, preferred_model, available_models) ==
    /\ Fresh
    /\ call' = [fn |-> "_get_available_model",
                arg |-> [impl |-> impl, preferred_model |-> preferred_model,
                         available_models |-> available_models],
                out |-> _get_available_model(impl, preferred_model, available_models)]
    /\ UNCHANGED <<now, sessions, db_sessions, db_timers, db_locked, resp, requests,
                   inflight, ex>>

Chat(model, available, outs) ==
    /\ Fresh
    /\ call' = [fn |-> "chat",
                arg |-> [model |-> model, available |-> available, outs |-> outs],
                out |-> chat_with_fallback(model, available, outs)]
    /\ UNCHANGED <<now, sessions, db_sessions, db_timers, db_locked, resp, requests,
                   inflight, ex>>

ValidateRecipe(recipe) ==
    /\ Fresh
    /\ call' = [fn |-> "_validate_recipe", arg |-> recipe, out |-> _validate_recipe(recipe)]
    /\ UNCHANGED <<now, sessions, db_sessions, db_timers, db_locked, resp, requests,
                   inflight, ex>>

ExtractJson(text) ==
    /\ Fresh
    /\ call' = [fn |-> "extract_json_from_response", arg |-> text,
                out |-> extract_json_from_response(text)]
    /\ UNCHANGED <<now, sessions, db_sessions, db_timers, db_locked, resp, requests,
                   inflight, ex>>

NextFn ==
    \/ Fresh /\ \E d \in Durations : ParseTime(d)
    \/ Fresh /\ \E impl \in {"OllamaClient", "RecipeExtractor"},
                   preferred_model \in PreferredModels,
                   available_models \in AvailableLists :
                     ResolveModel(impl, preferred_model, available_models)
    \/ Fresh /\ \E model \in ChatModels, available \in AvailableSets,
                   outs \in [1..MaxPosts -> PostOutcomes] :
                     Chat(model, available, outs)
    \/ Fresh /\ \E recipe \in Documents : ValidateRecipe(recipe)
    \/ Fresh /\ \E text \in Responses : ExtractJson(text)

\* One application of one of the pure functions to one input.
SpecFn == Init /\ [][NextFn]_vars

(* ------------------------------- claims ------------------------------- *)
\* Every session a request can get: the cached ones and the stored ones.
AllSessions ==
    {sessions[k] : k \in DOMAIN sessions}
        \cup {_load_session(db_sessions, db_timers, k) : k \in DOMAIN db_sessions}

AllTimers == UNION {Range(s.timers) : s \in AllSessions}

TimerOf(s, id) == {s.timers[i] : i \in {j \in DOMAIN s.timers : s.timers[j].id = id}}

Statuses(s) == [i \in DOMAIN s.timers |-> <<s.timers[i].id, s.timers[i].status>>]

\* The rule of highest priority among those whose pattern matches.
TopRule(m) ==
    IF m.pause THEN "pause"
    ELSE IF m.resume THEN "resume"
    ELSE IF m.next THEN "advance"
    ELSE IF m.previous THEN "retreat"
    ELSE IF m.repeat THEN "repeat"
    ELSE IF m.step # <<>> THEN "jump"
    ELSE IF m.list # <<>> THEN "list"
    ELSE IF m.explain THEN "explain"
    ELSE "none"

\* C1: every session, from its creation on, has 1 <= current_step <=
\* total_steps, total_steps being the number of steps of its recipe.
C1_StepWithinRecipe ==
    \A s \in AllSessions : 1 <= s.current_step /\ s.current_step <= total_steps(s)

\* C2: next moves current_step up by exactly 1 and returns true below the
\* last step, and changes nothing and returns false at the last step;
\* previous moves it down by exactly 1 and returns true above step 1, and
\* changes nothing and returns false at step 1.
C2_AdvanceRetreat ==
    [][\A sid \in SessionIds :
          /\ NavigateStep(sid, "next") =>
                LET before == get_session(sid).current_step
                    moves == before < total_steps(get_session(sid))
                IN /\ sessions'[sid].current_step = IF moves THEN before + 1 ELSE before
                   /\ resp'.code = 200 => resp'.ret = IF moves THEN "True" ELSE "False"
          /\ NavigateStep(sid, "previous") =>
                LET before == get_session(sid).current_step
                    moves == before > 1
                IN /\ sessions'[sid].current_step = IF moves THEN before - 1 ELSE before
                   /\ resp'.code = 200 => resp'.ret = IF moves THEN "True" ELSE "False"
      ]_vars

\* An advance requested at the last step of a recipe of MaxSteps steps.
C2_Witness ==
    /\ resp.op = "step" /\ resp.body = "next" /\ resp.ret = "False"
    /\ resp.step = MaxSteps /\ resp.total_steps = MaxSteps

\* The jump commands submitted, with the step number each one names.
JumpCommands ==
    {[query |-> <<"go", "to", "step", "0">>, n |-> 0],
     [query |-> <<"goto", "step", "2">>, n |-> 2],
     [query |-> <<"show", "me", "step", "9">>, n |-> 9],
     [query |-> <<"hello", "show", "me", "step", "9">>, n |-> 9]}

\* C3: a jump command naming step N sets current_step to N when
\* 1 <= N <= total_steps, and otherwise leaves current_step as it was and
\* is answered like any forwarded query, with no error of its own.
C3_Jump ==
    [][\A c \in JumpCommands, chat \in ChatOutcomes :
          (resp'.op = "query" /\ QuerySession(resp'.sid, c.query, chat, now' - now)) =>
              LET before == get_session(resp'.sid)
              IN /\ sessions'[resp'.sid].current_step =
                        IF 1 <= c.n /\ c.n <= total_steps(before)
                        THEN c.n ELSE before.current_step
                 /\ chat = "ok" => resp'.code = 200
      ]_vars

\* A jump from step 1 to step 2, answered.
C3_Witness ==
    /\ resp.op = "query" /\ resp.code = 200 /\ resp.applied = {"jump"}
    /\ resp.step = 2 /\ sessions[resp.sid].current_step = 2

\* C4: of the rules an utterance matches, only the one of highest priority
\* in the order pause, resume, advance, retreat, repeat, jump, list, explain
\* acts.
C4_PriorityOrder ==
    [][\A u \in Utterances, chat \in ChatOutcomes :
          (resp'.op = "query" /\ QuerySession(resp'.sid, u, chat, now' - now)) =>
              resp'.applied \subseteq {TopRule(MatchTable[u])}
      ]_vars

\* C5: a query applies at most one rule action to the session and the
\* response.
C5_OneIntent == Cardinality(resp.applied) <= 1

\* The list commands submitted, with the direction and the count each names.
ListCommands ==
    {[query |-> <<"list", "the", "first", "2", "steps">>, direction |-> "first", k |-> 2],
     [query |-> <<"list", "first", "7", "steps">>, direction |-> "first", k |-> 7],
     [query |-> <<"list", "the", "last", "2", "steps">>, direction |-> "last", k |-> 2],
     [query |-> <<"list", "last", "0", "steps">>, direction |-> "last", k |-> 0]}

\* The first, or the last, min(k, T) steps of a recipe of T steps.
ExpectedSteps(steps, direction, k) ==
    LET n == Min(k, Len(steps))
    IN IF direction = "first" THEN SubSeq(steps, 1, n)
       ELSE SubSeq(steps, Len(steps) - n + 1, Len(steps))

\* C6: "list the first K steps" returns the (step_number, instruction) pairs
\* of steps 1..min(K, T) in order and "list the last K steps" those of the
\* last min(K, T) steps, for every K >= 0, without an error.
C6_ListSlices ==
    [][\A c \in ListCommands, chat \in ChatOutcomes :
          (resp'.op = "query" /\ QuerySession(resp'.sid, c.query, chat, now' - now)) =>
              /\ resp'.code = 200
              /\ resp'.listing =
                    StepLines(ExpectedSteps(get_session(resp'.sid).recipe.steps,
                                            c.direction, c.k))
      ]_vars

\* The utterances whose rule of highest priority is the list rule.
ListClassified == {u \in Utterances : TopRule(MatchTable[u]) = "list"}

\* C7: a query classified as a list command does not call the language
\* backend and leaves current_step, is_paused and the status of every timer
\* as they were.
C7_ListShortCircuits ==
    [][\A u \in ListClassified, chat \in ChatOutcomes :
          (resp'.op = "query" /\ QuerySession(resp'.sid, u, chat, now' - now)) =>
              LET before == get_session(resp'.sid)
                  after == sessions'[resp'.sid]
              IN /\ resp'.llm_calls = 0
                 /\ after.current_step = before.current_step
                 /\ after.is_paused = before.is_paused
                 /\ Statuses(after) = Statuses(before)
      ]_vars

\* A list command answered for a session that holds an expired timer no
\* sweep has seen: a sweep would have flipped it.
C7_Witness ==
    /\ resp.op = "query" /\ resp.code = 200 /\ resp.body = "list" /\ resp.applied = {"list"}
    /\ resp.sid \in DOMAIN sessions
    /\ \E t \in Range(sessions[resp.sid].timers) : t.status = "running" /\ is_done(t, now)

\* The instants the remaining time is looked at: from a timer's start to
\* well after the end of the run.
Horizon == MaxClock + 3 * TicksPerSec

\* C8: at every instant from its start on, a timer's seconds_remaining is
\* at least 0 and at most seconds_total, does not grow as the clock
\* advances, and is 0 when the status is completed.
C8_Remaining ==
    \A t \in AllTimers :
        \A c1 \in t.started_at..Horizon :
            /\ 0 <= seconds_remaining(t, c1)
            /\ seconds_remaining(t, c1) <= t.seconds_total
            /\ t.status = "completed" => seconds_remaining(t, c1) = 0
            /\ \A c2 \in c1..Horizon : seconds_remaining(t, c2) <= seconds_remaining(t, c1)

\* A running timer of at least one second that has counted down to 0.
C8_Witness ==
    \E t \in AllTimers :
        /\ t.status = "running" /\ t.seconds_total >= 1
        /\ now > t.started_at /\ seconds_remaining(t, now) = 0

\* C9: a sweep returns exactly the timers that were running with 0 seconds
\* remaining and leaves them completed, and a timer that is completed is
\* never running again for any later request, so that no later sweep
\* returns it a second time.
C9_SweepOnce ==
    [][\A sid \in SessionIds :
          /\ (resp'.op \in {"state", "query"} /\ resp'.sid = sid /\ Known(sid)
                /\ (resp'.op = "state" \/ resp'.llm_calls > 0)) =>
                resp'.completed =
                    Ids(SelectSeq(get_session(sid).timers,
                                  LAMBDA t : t.status = "running" /\ is_done(t, now)))
          /\ (Known(sid) /\ Known(sid)') =>
                \A t \in Range(get_session(sid).timers) :
                    t.status = "completed" =>
                        \A u \in TimerOf(get_session(sid)', t.id) : u.status = "completed"
      ]_vars

\* C10: a timer becomes completed only in a request whose response carries
\* its "<label> is done" alert.
C10_AlertOnCompletion ==
    [][\A sid \in SessionIds :
          (Known(sid) /\ Known(sid)') =>
              \A t \in Range(get_session(sid).timers) :
                  \A u \in TimerOf(get_session(sid)', t.id) :
                      (t.status = "running" /\ u.status = "completed") =>
                          (resp'.code = 200 /\ t.label \in Range(resp'.alerts))
      ]_vars

\* What the store holds of one session: its row, if any, and its timer rows.
Snapshot(srows, trows, sid) ==
    [row |-> IF sid \in DOMAIN srows THEN <<srows[sid]>> ELSE <<>>,
     timers |-> SelectSeq(trows, LAMBDA r : r.session_id = sid)]

\* What a complete save of a session object writes of it.
SnapshotOf(s) ==
    [row |-> <<SessionRow(s)>>,
     timers |-> [i \in DOMAIN s.timers |-> TimerRow(s.session_id, s.timers[i])]]

\* C11: an add-timer request whose duration converts to 0 seconds or fewer
\* is refused and attaches no timer: every timer of every session, and
\* every timer an add-timer response reports, has seconds_total >= 1.
C11_PositiveDuration ==
    /\ \A t \in AllTimers : t.seconds_total >= 1
    /\ (resp.op = "timer" /\ resp.code = 200) => resp.timer[1].seconds_total >= 1

\* C12: every successful add-timer request makes the session's timer count
\* grow by exactly one and leaves every timer the session had as it was,
\* also when two timers are added in the same tick of the clock.
C12_TimerIdsUnique ==
    [][\A r \in TimerRequests :
          (resp'.op = "timer" /\ resp'.code = 200
              /\ AddTimer(resp'.sid, r.label, r.duration)) =>
              LET before == get_session(resp'.sid).timers
                  after == sessions'[resp'.sid].timers
              IN /\ Len(after) = Len(before) + 1
                 /\ \A i \in DOMAIN before : after[i] = before[i]
      ]_vars

\* C13: every start-session call returns an id that no session had, and
\* leaves every session that existed, cached and stored, as it was, also
\* when two sessions are started in the same tick of the clock.
C13_SessionIdsUnique ==
    [][\A recipe \in Recipes :
          (resp'.op = "start" /\ resp'.code = 200 /\ StartSession(recipe)) =>
              /\ ~Known(resp'.sid)
              /\ \A k \in DOMAIN sessions : sessions'[k] = sessions[k]
              /\ \A k \in DOMAIN db_sessions :
                    Snapshot(db_sessions', db_timers', k) = Snapshot(db_sessions, db_timers, k)
      ]_vars

\* Two session states that agree in step, pause flag and timer set.
Equivalent(a, b) ==
    /\ a.current_step = b.current_step
    /\ a.is_paused = b.is_paused
    /\ Range(a.timers) = Range(b.timers)

\* C14: for every session state, a save that completes followed by a load
\* by id gives a session with the same current_step, the same is_paused
\* and the same set of timers (id, label, seconds_total, started_at, status).
C14_RoundTrip ==
    \A s \in AllSessions :
        LET saved == _save_session(db_sessions, db_timers, s, db_locked)
        IN saved.ok =>
              Equivalent(_load_session(saved.sessions, saved.timers, s.session_id), s)

\* A paused session that holds a timer, and that a save can write.
C14_Witness ==
    \E s \in Range(sessions) :
        /\ s.is_paused /\ s.timers # <<>>
        /\ _save_session(db_sessions, db_timers, s, db_locked).ok

\* C15: when a request on a session has returned a successful response, the
\* stored snapshot of that session, loaded, equals the session in memory
\* in current_step, is_paused and timers with their statuses.
C15_DurableAfterSuccess ==
    (resp.code = 200 /\ resp.op \in {"step", "timer", "state", "query"}) =>
        /\ resp.sid \in DOMAIN sessions
        /\ resp.sid \in DOMAIN db_sessions
        /\ Equivalent(_load_session(db_sessions, db_timers, resp.sid), sessions[resp.sid])

\* A state fetch whose sweep completed a timer, answered successfully.
C15_Witness ==
    /\ resp.code = 200 /\ resp.op = "state" /\ resp.completed # <<>>
    /\ \E t \in Range(sessions[resp.sid].timers) : t.status = "completed"

\* The step, the pause flag and the timer statuses of a session.
Progress(s) ==
    [current_step |-> s.current_step, is_paused |-> s.is_paused, statuses |-> Statuses(s)]

\* C16: when a query ends in failure, the session that later requests get
\* and the stored snapshot both have the current_step, is_paused and timer
\* statuses they had before the query.
C16_NoPartialProgress ==
    [][\A sid \in SessionIds, u \in CoreUtterances, chat \in ChatOutcomes :
          (resp'.op = "query" /\ resp'.code = 500 /\ resp'.sid = sid
              /\ QuerySession(sid, u, chat, now' - now)) =>
              /\ Progress(get_session(sid)') = Progress(get_session(sid))
              /\ Snapshot(db_sessions', db_timers', sid) =
                     Snapshot(db_sessions, db_timers, sid)
      ]_vars

\* C17: whatever a save does, and wherever in it a statement raises, the
\* store holds of every session either the complete snapshot it held before
\* or the complete snapshot of the session object being saved.
C17_AtomicSave ==
    [][\A sid \in SessionIds :
          LET old == Snapshot(db_sessions, db_timers, sid)
              new == Snapshot(db_sessions', db_timers', sid)
          IN \/ new = old
             \/ sid \in DOMAIN sessions' /\ new = SnapshotOf(sessions'[sid])
      ]_vars

\* A request just failed because an INSERT of its save raised: the session
\* object differs from what the store holds of it.
C17_Witness ==
    /\ resp.code = 500 /\ resp.op \in {"timer", "step"} /\ db_locked
    /\ resp.sid \in DOMAIN sessions
    /\ ~Statements(db_sessions, db_timers, sessions[resp.sid]).ok
    /\ Snapshot(db_sessions, db_timers, resp.sid) # SnapshotOf(sessions[resp.sid])

\* C18: in every state of the store, every timer row names a session id
\* for which a session row exists.
C18_TimerRowsHaveSession ==
    \A i \in DOMAIN db_timers : db_timers[i].session_id \in DOMAIN db_sessions

\* An add-timer request has just written a timer row.
C18_Witness ==
    /\ resp.op = "timer" /\ resp.code = 200
    /\ \E i \in DOMAIN db_timers : db_timers[i].session_id = resp.sid

\* The session rows and the timer rows of one session: the store as it
\* would be had no other session been used.
OwnSessionRows(sid) == [k \in DOMAIN db_sessions \cap {sid} |-> db_sessions[k]]

OwnTimerRows(sid) == SelectSeq(db_timers, LAMBDA r : r.session_id = sid)

\* C19: a request on a session succeeds or fails, and leaves of that
\* session in the store, what it would with no other session in the store:
\* the requests on other sessions make no difference, also when timers are
\* added to two sessions in the same tick of the clock.
C19_SessionsIndependent ==
    [][\A sid \in SessionIds :
          (requests' # requests /\ resp'.op \in {"timer", "step"} /\ resp'.sid = sid
              /\ Known(sid)) =>
              LET alone == _save_session(OwnSessionRows(sid), OwnTimerRows(sid),
                                         sessions'[sid], FALSE)
              IN /\ (resp'.code = 200) = alone.ok
                 /\ Snapshot(db_sessions', db_timers', sid) =
                        Snapshot(alone.sessions, alone.timers, sid)
      ]_vars

\* C20: when two requests on the same session have both completed, the
\* stored current_step of the session is the one written by the request
\* that saved last.
C20_LastWriterWins ==
    \A v \in Workers, w \in Workers :
        (/\ inflight[v].pc = "done" /\ inflight[w].pc = "done"
         /\ inflight[v].sid = inflight[w].sid
         /\ inflight[v].saved_at < inflight[w].saved_at) =>
            <<db_sessions[inflight[w].sid].current_step>> = inflight[w].wrote

\* Two requests on one session that overlapped, each one received before
\* the other saved, and that wrote different steps.
C20_Witness ==
    \E v \in Workers, w \in Workers :
        /\ inflight[v].pc = "done" /\ inflight[w].pc = "done"
        /\ inflight[v].sid = inflight[w].sid
        /\ inflight[v].saved_at < inflight[w].saved_at
        /\ inflight[w].got_at < inflight[v].saved_at
        /\ inflight[v].wrote # inflight[w].wrote

(* ------------------------ extraction pipeline ------------------------- *)
\* The structure a recipe document must have: a mapping with the three
\* keys, ingredients a mapping, tools a sequence, steps a non-empty
\* sequence of mappings that each have step_number and instruction.
StructurallyValid(doc) ==
    /\ doc.kind = "dict"
    /\ RequiredKeys \subseteq doc.has
    /\ doc.ingredients = "dict"
    /\ doc.tools = "list"
    /\ doc.steps.kind = "list"
    /\ Len(doc.steps.items) >= 1
    /\ \A i \in DOMAIN doc.steps.items :
          doc.steps.items[i].kind = "dict" /\ StepKeys \subseteq doc.steps.items[i].has

ValidReply(reply) ==
    reply.kind = "text" /\ reply.json # <<>> /\ StructurallyValid(reply.json[1])

CallsOf(kind) == Cardinality({i \in DOMAIN ex.trace : ex.trace[i].call = kind})

Finished == ex.pc \in {"returned", "none", "raised"}

\* C21: when the first answer of the backend is malformed JSON and its
\* second answer is a valid recipe, the second call is the repair request
\* fed the malformed text, extract returns that recipe, and one extraction
\* call and one repair call are all the calls made.
C21_RepairOnce ==
    (/\ Len(ex.trace) >= 2
     /\ ex.trace[1].reply = Malformed
     /\ ValidReply(ex.trace[2].reply)) =>
        /\ ex.trace[2].call = "repair"
        /\ ex.trace[2].fed = <<Malformed>>
        /\ ex.pc = "returned"
        /\ ex.result = ex.trace[2].reply.json
        /\ Len(ex.trace) = 2
        /\ CallsOf("extract") = 1
        /\ CallsOf("repair") = 1

C21_Witness ==
    /\ ex.pc = "returned"
    /\ Len(ex.trace) = 2
    /\ ex.trace[1].reply = Malformed
    /\ ex.trace[2].call = "repair"
    /\ ex.result = <<ValidDoc>>

\* C22: a value extract returns other than None is structurally valid; and
\* when every answer of the backend is a text that is not a structurally
\* valid recipe, the finished run has made max_retries + 1 extraction calls
\* and returned None.
C22_OnlyValidReturned ==
    /\ ex.result # <<>> => StructurallyValid(ex.result[1])
    /\ (/\ Finished
        /\ \A i \in DOMAIN ex.trace :
              ex.trace[i].reply.kind = "text" /\ ~ValidReply(ex.trace[i].reply)) =>
            /\ ex.pc = "none"
            /\ ex.result = <<>>
            /\ CallsOf("extract") = max_retries + 1

C22_Witness ==
    /\ ex.pc = "none"
    /\ CallsOf("extract") = max_retries + 1
    /\ \A i \in DOMAIN ex.trace : ex.trace[i].reply = Text(EmptyStepsDoc)

\* C23: every extraction call after the first one of a run comes directly
\* after a repair call, whether the attempt before it failed to parse or
\* parsed and failed the validation.
C23_RepairBeforeRetry ==
    \A i \in DOMAIN ex.trace :
        (i > 1 /\ ex.trace[i].call = "extract" /\ ex.trace[i - 1].reply.kind = "text") =>
            ex.trace[i - 1].call = "repair"

\* C24: a run of extract finishes, and it never makes more than
\* max_retries + 1 extraction calls or more than max_retries repair calls.
C24_Terminates ==
    /\ [](CallsOf("extract") <= max_retries + 1 /\ CallsOf("repair") <= max_retries)
    /\ <>Finished

C24_Witness ==
    /\ ex.pc = "none"
    /\ CallsOf("extract") = max_retries + 1
    /\ CallsOf("repair") = max_retries

(* --------------------------- backend calls ---------------------------- *)
\* C25: when the first backend request for a conversational answer (asked
\* of gemma3:1b) times out, at most one further request is made; when that
\* one fails as well the call raises; and an answer is only ever the answer
\* of the last request made.
C25_FallbackOnce ==
    (call.fn = "chat" /\ call.arg.model = Gemma1b /\ call.arg.outs[1] = "timeout") =>
        /\ Len(call.out.posts) <= 2
        /\ (Len(call.out.posts) >= 2 /\ call.arg.outs[2] # "ok") => call.out.ret = "raise"
        /\ call.out.ret = "text" => call.arg.outs[Len(call.out.posts)] = "ok"

(* --------------------------- input errors ----------------------------- *)
\* A duration in which no number is followed by a word that a unit pattern
\* matches.
NoUnit(duration) == \A i \in DOMAIN duration : FirstLetter(duration[i].unit) = ""

\* C26: a request on an id no session has is answered 404 and creates no
\* session; an add-timer request whose duration has no unit and a step
\* request with an action other than next, previous and repeat are
\* answered 400; and all three leave every cached session, the session of
\* the request and both tables as they were.
C26_InputErrorsChangeNothing ==
    [][/\ \A op \in {"state", "step", "timer", "query"} :
            (resp'.op = op /\ NotFound(op, UnknownId)) =>
                /\ resp'.code = 404
                /\ ~Known(UnknownId)'
                /\ UNCHANGED <<sessions, db_sessions, db_timers>>
       /\ \A sid \in SessionIds, r \in TimerRequests :
            (resp'.op = "timer" /\ NoUnit(r.duration) /\ AddTimer(sid, r.label, r.duration)) =>
                /\ resp'.code = 400
                /\ get_session(sid)' = get_session(sid)
                /\ \A k \in DOMAIN sessions : sessions'[k] = sessions[k]
                /\ UNCHANGED <<db_sessions, db_timers>>
       /\ \A sid \in SessionIds, action \in Actions \ {"next", "previous", "repeat"} :
            (resp'.op = "step" /\ NavigateStep(sid, action)) =>
                /\ resp'.code = 400
                /\ get_session(sid)' = get_session(sid)
                /\ \A k \in DOMAIN sessions : sessions'[k] = sessions[k]
                /\ UNCHANGED <<db_sessions, db_timers>>
      ]_vars

C26_Witness ==
    /\ resp.op = "timer"
    /\ resp.code = 400
    /\ Known(resp.sid)
    /\ get_session(resp.sid).current_step = 2

(* --------------------------- pure functions --------------------------- *)
\* The seconds of the unit whose pattern matches the word; 0 when none does.
UnitSeconds(unit) ==
    CASE FirstLetter(unit) = "h" -> 3600
      [] FirstLetter(unit) = "m" -> 60
      [] FirstLetter(unit) = "s" -> 1
      [] OTHER -> 0

\* C27: a duration "<number> <unit>" parses to the number times 3600, 60 or
\* 1 for hours, minutes or seconds, the fraction of a second dropped; a
\* duration without a unit does not parse.
C27_DurationParsing ==
    (call.fn = "parse_time_string" /\ Len(call.arg) = 1) =>
        LET t == call.arg[1]
        IN IF UnitSeconds(t.unit) = 0 THEN call.out = <<>>
           ELSE call.out = <<((t.whole * 10 + t.tenths) * UnitSeconds(t.unit)) \div 10>>

\* The resolution as stated: the exact name, else the first model the name
\* is the tag-less prefix of, else the first match of the fallback list,
\* else the first model; the name asked for when there is no model.
Resolved(impl, preferred_model, available_models) ==
    LET exact == {i \in DOMAIN available_models : available_models[i] = preferred_model}
        prefixed == {i \in DOMAIN available_models :
                        starts_with_tag(available_models[i], preferred_model)}
        order == fallback_order(impl)
        found == {k \in DOMAIN order : first_match(available_models, order[k]) # <<>>}
    IN IF available_models = <<>> THEN preferred_model
       ELSE IF exact # {} THEN preferred_model
       ELSE IF prefixed # {}
       THEN available_models[CHOOSE i \in prefixed : \A j \in prefixed : i <= j]
       ELSE IF found # {}
       THEN first_match(available_models, order[CHOOSE k \in found : \A j \in found : k <= j])[1]
       ELSE available_models[1]

\* C28: the model chosen is the exact match when there is one, whatever the
\* order of the list, else a prefix match, else the first match of the
\* fallback list, else the first model, and the requested name when no
\* model is available.
C28_ModelResolution ==
    call.fn = "_get_available_model" =>
        call.out = Resolved(call.arg.impl, call.arg.preferred_model, call.arg.available_models)

\* C29: a parsed document is accepted exactly when it is structurally
\* valid; the numbers of its steps play no part.
C29_ValidationIff ==
    call.fn = "_validate_recipe" => (call.out = "True" <=> StructurallyValid(call.arg))

C29_Witness ==
    /\ call.fn = "_validate_recipe"
    /\ call.out = "True"
    /\ Len(call.arg.steps.items) = 2
    /\ call.arg.steps.items[1].step_number = 1
    /\ call.arg.steps.items[2].step_number = 3

\* The position of the token that closes the bracket opened before
\* position j, depth brackets being open there; 0 when none does.
RECURSIVE ClosedAt(_, _, _)
ClosedAt(text, j, depth) ==
    IF j > Len(text) THEN 0
    ELSE LET d == CASE text[j] \in {"{", "["} -> depth + 1
                    [] text[j] \in {"}", "]"} -> depth - 1
                    [] OTHER -> depth
         IN IF d = 0 THEN j ELSE ClosedAt(text, j + 1, d)

Openers(text) == {i \in DOMAIN text : text[i] \in {"{", "["}}

\* C30: when the first bracket of the unfenced response is closed by its
\* matching bracket, the candidate is the span from the one to the other,
\* and nothing after it.
C30_FirstBalancedSpan ==
    call.fn = "extract_json_from_response" =>
        LET text == unfenced(call.arg)
            i == CHOOSE a \in Openers(text) : \A b \in Openers(text) : a <= b
            j == ClosedAt(text, i + 1, 1)
        IN (Openers(text) # {} /\ j # 0 /\ text[j] = Closer(text[i])) =>
                call.out = SubSeq(text, i, j)

\* C31: for every session, cached or loaded from the store, the active
\* timers are exactly its timers with status running and more than 0
\* seconds remaining, in the order they were created; a session that is
\* saved and loaded by id lists the same active timers.
C31_ActiveTimers ==
    \A s \in AllSessions :
        LET active == get_active_timers(s, now)
            saved == _save_session(db_sessions, db_timers, s, db_locked)
        IN /\ Range(active) =
                 {t \in Range(s.timers) : t.status = "running" /\ seconds_remaining(t, now) > 0}
           /\ \A i, j \in DOMAIN active : i < j => active[i].started_at < active[j].started_at
           /\ saved.ok =>
                 get_active_timers(_load_session(saved.sessions, saved.timers, s.session_id),
                                   now) = active

\* A stored session with two timers, the older one running with no time
\* left and not yet swept, the newer one with time left.
C31_Witness ==
    \E k \in DOMAIN db_sessions :
        LET s == _load_session(db_sessions, db_timers, k)
        IN /\ Len(s.timers) = 2
           /\ s.timers[1].status = "running" /\ is_done(s.timers[1], now)
           /\ Ids(get_active_timers(s, now)) = <<s.timers[2].id>>

\* The running timers of a session whose time is up, oldest first: the
\* timers a sweep made at this instant flips.
Expired(s, clock) == SelectSeq(s.timers, LAMBDA t : t.status = "running" /\ is_done(t, clock))

\* C32: when a query is forwarded to the language backend, the sweep is
\* made before the call, whether or not the call returns: the expired
\* running timers of the session are completed and no other status moves.
\* A response of status 200 carries one "<label> is done" alert for each
\* timer the sweep flipped, in order, and none when it flipped none.
C32_ForwardSweepsThenAlerts ==
    [][\A u \in CoreUtterances, chat \in ChatOutcomes :
          (/\ resp'.op = "query" /\ resp'.llm_calls = 1
           /\ QuerySession(resp'.sid, u, chat, now' - now)) =>
              LET before == get_session(resp'.sid)
                  after == sessions'[resp'.sid]
                  flipped == Expired(before, now)
              IN /\ DOMAIN after.timers = DOMAIN before.timers
                 /\ \A i \in DOMAIN before.timers :
                       after.timers[i].status =
                           IF before.timers[i].id \in Range(Ids(flipped))
                           THEN "completed"
                           ELSE before.timers[i].status
                 /\ resp'.completed = Ids(flipped)
                 /\ resp'.code = 200 => resp'.alerts = Labels(flipped)
      ]_vars

\* A forwarded query answered with an alert for a timer its sweep flipped.
C32_Witness ==
    /\ resp.op = "query" /\ resp.code = 200 /\ resp.body = "llm" /\ resp.llm_calls = 1
    /\ resp.alerts # <<>>
    /\ resp.sid \in DOMAIN sessions
    /\ \A id \in Range(resp.completed) :
          \E t \in Range(sessions[resp.sid].timers) : t.id = id /\ t.status = "completed"

\* C33: a query whose top rule is pause leaves is_paused true and one whose
\* top rule is resume leaves it false, whatever it was; both leave
\* current_step and the timers (id, label, seconds_total, started_at,
\* status) as they were and call no backend.  The remaining time of a
\* running timer of a paused session is seconds_total less the whole
\* seconds since started_at, never below 0: it counts down through a pause.
C33_PauseResume ==
    [][/\ \A u \in CoreUtterances, chat \in ChatOutcomes :
             (/\ resp'.op = "query"
              /\ TopRule(MatchTable[u]) \in {"pause", "resume"}
              /\ QuerySession(resp'.sid, u, chat, now' - now)) =>
                 LET before == get_session(resp'.sid)
                     after == sessions'[resp'.sid]
                 IN /\ after.is_paused = (TopRule(MatchTable[u]) = "pause")
                    /\ after.current_step = before.current_step
                    /\ after.timers = before.timers
                    /\ resp'.llm_calls = 0
       /\ \A sid \in DOMAIN sessions' :
             sessions'[sid].is_paused =>
                 \A t \in Range(sessions'[sid].timers) :
                     t.status = "running" =>
                         /\ seconds_remaining(t, now') =
                               Max(0, t.seconds_total - ((now' - t.started_at) \div TicksPerSec))
                         /\ (now' - t.started_at >= t.seconds_total * TicksPerSec) =>
                               is_done(t, now')
      ]_vars

\* A paused session whose running timer has run out during the pause.
C33_Witness ==
    \E s \in Range(sessions) :
        /\ s.is_paused
        /\ \E t \in Range(s.timers) :
              /\ t.status = "running" /\ t.seconds_total > 0 /\ is_done(t, now)
              /\ s.session_id \in DOMAIN db_sessions
              /\ db_sessions[s.session_id].is_paused = 1

\* C34: a step that is not a session start leaves the recipe and the
\* total_steps of every session a request can get as they were: a
\* navigation, a pause or resume, an add-timer, a query, a state fetch, a
\* refused request, a tick of the clock, and a restart that makes the next
\* request load the session from the store.
C34_RecipeImmutable ==
    [][~(resp'.op = "start" /\ requests' # requests) =>
          \/ sessions' = sessions /\ db_sessions' = db_sessions
          \/ \A sid \in DOMAIN sessions \cup DOMAIN db_sessions :
                Known(sid)' =>
                    /\ get_session(sid)'.recipe = get_session(sid).recipe
                    /\ total_steps(get_session(sid))' = total_steps(get_session(sid))
      ]_vars

\* A session with a recipe of several steps that was moved off step 1 and
\* is now only in the store: the next request loads it.
C34_Witness ==
    \E k \in DOMAIN db_sessions :
        /\ k \notin DOMAIN sessions
        /\ db_sessions[k].current_step > 1
        /\ get_session(k).recipe = MakeRecipe(MaxSteps)
        /\ total_steps(get_session(k)) = MaxSteps

C36_NeverRaises ==
    /\ ex.pc # "raised"
    /\ Finished =>
          \/ ex.pc = "returned" /\ ex.result # <<>> /\ StructurallyValid(ex.result[1])
          \/ ex.pc = "none" /\ CallsOf("extract") = max_retries + 1

\* The session with the pause flag the other way round.
Flipped(s) == [s EXCEPT !.is_paused = ~s.is_paused]

\* The utterances whose top rule is a navigation rule.
NavClassified ==
    {u \in Utterances : TopRule(MatchTable[u]) \in {"advance", "retreat", "jump"}}

\* C37: a next or previous request to /session/step, and a query whose top
\* rule is advance, retreat or jump, leaves is_paused as it was and moves
\* current_step exactly as it would have moved it had is_paused been the
\* other way round; /session/step also returns the same success flag.
C37_PauseDoesNotGate ==
    [][/\ \A action \in {"next", "previous"} :
             (resp'.op = "step" /\ NavigateStep(resp'.sid, action)) =>
                 LET before == get_session(resp'.sid)
                     after == sessions'[resp'.sid]
                     other == IF action = "next" THEN next_step(Flipped(before))
                              ELSE previous_step(Flipped(before))
                 IN /\ after.is_paused = before.is_paused
                    /\ after.current_step = other.session.current_step
                    /\ resp'.code = 200 => resp'.ret = other.ret
       /\ \A u \in NavClassified, chat \in ChatOutcomes :
             (resp'.op = "query" /\ QuerySession(resp'.sid, u, chat, now' - now)) =>
                 LET before == get_session(resp'.sid)
                     after == sessions'[resp'.sid]
                     other == query_session(Flipped(before), MatchTable[u], chat, now, now' - now)
                 IN /\ after.is_paused = before.is_paused
                    /\ after.current_step = other.session.current_step
      ]_vars

\* A paused session that a next request has just moved to a later step.
C37_Witness ==
    /\ resp.op = "step" /\ resp.code = 200 /\ resp.body = "next" /\ resp.ret = "True"
    /\ resp.sid \in DOMAIN sessions
    /\ sessions[resp.sid].is_paused
    /\ sessions[resp.sid].current_step = resp.step
    /\ resp.step > 1
====
